---- MODULE Spec2Model ----
(***************************************************************************)
(* Model of quality_check.py: a sequential quality gate that runs a fixed  *)
(* pipeline of check stages selected by its first argument, tallies the    *)
(* Pass/Fail results, prints a summary and exits 0 or 1.                   *)
(*                                                                         *)
(* Text is modelled as sequences of one-character strings so that strip,   *)
(* split, the version regex and Python's string comparison are computed.   *)
(* External commands are opaque: each run draws its result (return code,   *)
(* stdout, stderr, or a launch exception) from a small set.  The process   *)
(* environment is assumed to define PATH, go.mod (when present) is a       *)
(* readable text file and the build artifact (when present) a plain file.  *)
(***************************************************************************)
EXTENDS Integers, Sequences, FiniteSets, TLC

VARIABLES
    argv,           \* sys.argv[1:], fixed at process start
    command,        \* main's local `command`; "?" before main has read it
    pc,             \* "main", the stage function main calls next, "exit"
                    \* (main's final sys.exit) or "exited"
    CHECKS_PASSED,  \* global counter
    CHECKS_FAILED,  \* global counter
    PATH,           \* os.environ["PATH"]
    artifact,       \* whether ./otsu-obliterator exists
    exitCode,       \* process exit status, Running until the process exits
    \* History of the run; the program keeps none of it
    validated,      \* what validate_environment returned ("unset" before it ran)
    go_mod,         \* what os.path.isfile("go.mod") told validate_environment:
                    \* "present" or "missing" ("unchecked" while it has not asked)
    stages,         \* the functions main has called so far, in call order
    trace,          \* what the last step did that is observable, in order:
                    \* lines printed (pass/fail/warn/debug/print), commands run
    bootstrap,      \* the trace of check_tools, kept once it has run
    emitted,        \* number of pass / fail / warn lines printed so far
    ran             \* number of times each command line has been run so far

vars == <<argv, command, pc, CHECKS_PASSED, CHECKS_FAILED, PATH, artifact,
          exitCode, validated, go_mod, stages, trace, bootstrap, emitted, ran>>

Running == -1

----------------------------------------------------------------------------
(* Program constants *)

PROJECT_NAME ==
    <<"o", "t", "s", "u", "-", "o", "b", "l", "i", "t", "e", "r", "a", "t", "o", "r">>

GO_VERSION_REQUIRED == <<"1", ".", "2", "4">>

Tools == {"staticcheck", "govulncheck"}

ProbeCommand(tool_name) ==
    IF tool_name = "staticcheck" THEN "command -v staticcheck"
    ELSE "command -v govulncheck"

InstallCommand(tool_name) ==
    IF tool_name = "staticcheck"
    THEN "go install honnef.co/go/tools/cmd/staticcheck@latest"
    ELSE "go install golang.org/x/vuln/cmd/govulncheck@latest"

ToolCommand(tool_name) ==
    IF tool_name = "staticcheck" THEN "staticcheck -checks='all,-SA1019' ./..."
    ELSE "govulncheck ./..."

CoreChecks ==
    << [cmd |-> "go vet ./...", desc |-> "go vet passed", first |-> "go"],
       [cmd |-> "go test -race -short ./...",
        desc |-> "Tests passed with race detection", first |-> "Tests"],
       [cmd |-> "go mod tidy -diff",
        desc |-> "Dependencies properly managed", first |-> "Dependencies"],
       [cmd |-> "go mod verify",
        desc |-> "Module checksums verified", first |-> "Module"] >>

----------------------------------------------------------------------------
(* Python string operations on character sequences *)

Whitespace == {" ", "\n", "\t", "\r"}

RECURSIVE LStrip(_)
LStrip(s) ==
    IF s # <<>> /\ Head(s) \in Whitespace THEN LStrip(Tail(s)) ELSE s

RECURSIVE RStrip(_)
RStrip(s) ==
    IF s # <<>> /\ s[Len(s)] \in Whitespace
    THEN RStrip(SubSeq(s, 1, Len(s) - 1))
    ELSE s

\* str.strip()
Strip(s) == RStrip(LStrip(s))

\* str.split(sep) with an explicit one-character separator
RECURSIVE Split(_, _)
Split(s, sep) ==
    IF \A i \in 1..Len(s) : s[i] # sep
    THEN <<s>>
    ELSE LET i == CHOOSE k \in 1..Len(s) :
                      s[k] = sep /\ \A j \in 1..(k - 1) : s[j] # sep
         IN  <<SubSeq(s, 1, i - 1)>> \o Split(SubSeq(s, i + 1, Len(s)), sep)

DigitChars == {"0", "1", "2", "3", "4", "5", "6", "7", "8", "9"}

\* ord() of the characters a parsed version can hold
Ord(c) ==
    CASE c = "." -> 46
      [] c = "0" -> 48 [] c = "1" -> 49 [] c = "2" -> 50 [] c = "3" -> 51
      [] c = "4" -> 52 [] c = "5" -> 53 [] c = "6" -> 54 [] c = "7" -> 55
      [] c = "8" -> 56 [] c = "9" -> 57

\* dotted versions compared as numbers, major first and then minor
StrLess_numeric(a, b) ==
    LET pa == Split(a, ".")
        pb == Split(b, ".")
        RECURSIVE Value(_)
        Value(d) == IF d = <<>> THEN 0
                    ELSE 10 * Value(SubSeq(d, 1, Len(d) - 1)) + (Ord(d[Len(d)]) - 48)
    IN  \/ Value(pa[1]) < Value(pb[1])
        \/ Value(pa[1]) = Value(pb[1]) /\ Value(pa[2]) < Value(pb[2])

\* Python's a < b on str: code point by code point, a proper prefix is smaller
RECURSIVE StrLess(_, _)
StrLess(a, b) ==
    IF b = <<>> THEN FALSE
    ELSE IF a = <<>> THEN TRUE
    ELSE IF Ord(Head(a)) < Ord(Head(b)) THEN TRUE
    ELSE IF Ord(Head(a)) > Ord(Head(b)) THEN FALSE
    ELSE StrLess(Tail(a), Tail(b))

\* length of the run of digits of t that starts at position i
RECURSIVE DigitRun(_, _)
DigitRun(t, i) ==
    IF i <= Len(t) /\ t[i] \in DigitChars THEN 1 + DigitRun(t, i + 1) ELSE 0

\* whether go(\d+\.\d+) matches at position i (\d+ is greedy; giving digits
\* back never helps, the character after a shorter run being a digit)
GoVersionMatchAt(t, i) ==
    /\ i + 1 <= Len(t)
    /\ t[i] = "g"
    /\ t[i + 1] = "o"
    /\ DigitRun(t, i + 2) >= 1
    /\ LET dot == i + 2 + DigitRun(t, i + 2)
       IN  /\ dot <= Len(t)
           /\ t[dot] = "."
           /\ DigitRun(t, dot + 1) >= 1

\* re.search(r'go(\d+\.\d+)', t): the leftmost match and its group 1
ReSearchGoVersion(t) ==
    IF \E i \in 1..Len(t) : GoVersionMatchAt(t, i)
    THEN LET i   == CHOOSE k \in 1..Len(t) :
                        GoVersionMatchAt(t, k)
                        /\ \A j \in 1..(k - 1) : ~GoVersionMatchAt(t, j)
             dot == i + 2 + DigitRun(t, i + 2)
         IN  [matched |-> TRUE,
              group1  |-> SubSeq(t, i + 2, dot + DigitRun(t, dot + 1))]
    ELSE [matched |-> FALSE, group1 |-> <<>>]

\* os.path.join(a, b) for a relative b
OsPathJoin(a, b) ==
    IF a = <<>> THEN b
    ELSE IF a[Len(a)] = "/" THEN a \o b
    ELSE a \o <<"/">> \o b

DigitOf(n) ==
    CASE n = 0 -> "0" [] n = 1 -> "1" [] n = 2 -> "2" [] n = 3 -> "3"
      [] n = 4 -> "4" [] n = 5 -> "5" [] n = 6 -> "6" [] n = 7 -> "7"
      [] n = 8 -> "8" [] n = 9 -> "9"

\* str(n) of a non-negative int, as an f-string formats it
RECURSIVE Str(_)
Str(n) == IF n < 10 THEN <<DigitOf(n)>> ELSE Str(n \div 10) \o <<DigitOf(n % 10)>>

----------------------------------------------------------------------------
(* The running process: what the stage functions read and write *)

\* the process as a step finds it; its trace collects what the step does
Proc ==
    [passed |-> CHECKS_PASSED, failed |-> CHECKS_FAILED, trace |-> <<>>,
     path |-> PATH, artifact |-> artifact, exit |-> Running]

\* One observable event.  type: "print", "debug", "pass", "fail", "warn" (a
\* line printed) or "run" (a command handed to subprocess.run).  text: the
\* fixed part of the line, or the command line.  subject: the tool name
\* formatted into the line ("" if none).  args: the other formatted values,
\* as character sequences; for "run", the output run_command returned.
\* ok: for "run", the success flag run_command returned.
Ev(type, text, subject, args, ok) ==
    [type |-> type, text |-> text, subject |-> subject, args |-> args, ok |-> ok]

\* print(...) of a plain line
emit(s, text, args) ==
    [s EXCEPT !.trace = Append(@, Ev("print", text, "", args, TRUE))]

debug(s, text, subject, args) ==
    [s EXCEPT !.trace = Append(@, Ev("debug", text, subject, args, TRUE))]

success(s, text, subject, args) ==
    [s EXCEPT !.trace = Append(@, Ev("pass", text, subject, args, TRUE)),
              !.passed = @ + 1]

fail(s, text, subject, args) ==
    [s EXCEPT !.trace = Append(@, Ev("fail", text, subject, args, TRUE)),
              !.failed = @ + 1]

\* warn counted as a failure
warn_counted(s, text, subject, args) ==
    [s EXCEPT !.trace = Append(@, Ev("warn", text, subject, args, TRUE)),
              !.failed = @ + 1]

warn(s, text, subject, args) ==
    [s EXCEPT !.trace = Append(@, Ev("warn", text, subject, args, TRUE))]

\* sys.exit(code)
sys_exit(s, code) == [s EXCEPT !.exit = code]

\* What subprocess.run gave: a completed process, or an exception
Completed(rc, out, err) ==
    [raised |-> FALSE, returncode |-> rc, stdout |-> out, stderr |-> err,
     exc |-> <<>>]

Raised(text) ==
    [raised |-> TRUE, returncode |-> 0, stdout |-> <<>>, stderr |-> <<>>,
     exc |-> text]

\* run_command(command), with res what subprocess.run gives this time; the
\* run itself is recorded in the trace with the success flag returned
run_command(s, cmd, res) ==
    LET ok     == ~res.raised /\ res.returncode = 0
        output == IF res.raised THEN res.exc
                  ELSE IF res.returncode = 0 THEN Strip(res.stdout)
                  ELSE Strip(res.stderr)
    IN  [s      |-> [s EXCEPT !.trace = Append(@, Ev("run", cmd, "", <<output>>, ok))],
         ok     |-> ok,
         output |-> output]

\* get_gopath reporting the failure and returning an empty path
get_gopath_continues(s, res) ==
    LET r == run_command(s, "go env GOPATH", res)
    IN  IF r.ok
        THEN [s |-> r.s, gopath |-> r.output]
        ELSE [s |-> fail(r.s, "Failed to get GOPATH", "", <<>>), gopath |-> <<>>]

\* get_gopath exiting without recording the failure
get_gopath_exit_unrecorded(s, res) ==
    LET r == run_command(s, "go env GOPATH", res)
    IN  IF r.ok
        THEN [s |-> r.s, gopath |-> r.output]
        ELSE [s |-> sys_exit(r.s, 1), gopath |-> <<>>]

get_gopath(s, res) ==
    LET r == run_command(s, "go env GOPATH", res)
    IN  IF r.ok
        THEN [s |-> r.s, gopath |-> r.output]
        ELSE [s |-> sys_exit(fail(r.s, "Failed to get GOPATH", "", <<>>), 1),
              gopath |-> <<>>]

\* install_tool reporting a failed install without the installer's output
install_tool_drops_output(s, tool_name, install_command, rProbe, rInstall, rGopath) ==
    LET s1    == debug(s, "Checking if {tool_name} is installed...", tool_name, <<>>)
        probe == run_command(s1, ProbeCommand(tool_name), rProbe)
    IN  IF ~probe.ok
        THEN LET s2   == warn(probe.s,
                              "{tool_name} not available, attempting to install...",
                              tool_name, <<>>)
                 inst == run_command(s2, install_command, rInstall)
             IN  IF inst.ok
                 THEN LET s3 == success(inst.s, "{tool_name} installed successfully",
                                        tool_name, <<>>)
                          g  == get_gopath(s3, rGopath)
                          bin_path == OsPathJoin(g.gopath, <<"b", "i", "n">>)
                      IN  IF g.s.exit # Running
                          THEN g.s
                          ELSE debug([g.s EXCEPT !.path = @ \o <<":">> \o bin_path],
                                     "Added {bin_path} to PATH", "", <<bin_path>>)
                 ELSE fail(inst.s, "Failed to install {tool_name}: {install_output}",
                           tool_name, <<>>)
        ELSE success(probe.s, "{tool_name} is already installed", tool_name, <<>>)

\* install_tool trying a failed install a second time
install_tool_retries(s, tool_name, install_command, rProbe, rInstall, rGopath) ==
    LET s1    == debug(s, "Checking if {tool_name} is installed...", tool_name, <<>>)
        probe == run_command(s1, ProbeCommand(tool_name), rProbe)
    IN  IF ~probe.ok
        THEN LET s2    == warn(probe.s,
                               "{tool_name} not available, attempting to install...",
                               tool_name, <<>>)
                 first == run_command(s2, install_command, rInstall)
                 inst  == IF first.ok THEN first
                          ELSE run_command(first.s, install_command, rInstall)
             IN  IF inst.ok
                 THEN LET s3 == success(inst.s, "{tool_name} installed successfully",
                                        tool_name, <<>>)
                          g  == get_gopath(s3, rGopath)
                          bin_path == OsPathJoin(g.gopath, <<"b", "i", "n">>)
                      IN  IF g.s.exit # Running
                          THEN g.s
                          ELSE debug([g.s EXCEPT !.path = @ \o <<":">> \o bin_path],
                                     "Added {bin_path} to PATH", "", <<bin_path>>)
                 ELSE fail(inst.s, "Failed to install {tool_name}: {install_output}",
                           tool_name, <<inst.output>>)
        ELSE success(probe.s, "{tool_name} is already installed", tool_name, <<>>)

\* install_tool printing its Warn only after it has run the install command
install_tool_warns_after_install(s, tool_name, install_command, rProbe, rInstall, rGopath) ==
    LET s1    == debug(s, "Checking if {tool_name} is installed...", tool_name, <<>>)
        probe == run_command(s1, ProbeCommand(tool_name), rProbe)
    IN  IF ~probe.ok
        THEN LET first == run_command(probe.s, install_command, rInstall)
                 inst  == [first EXCEPT !.s =
                              warn(first.s,
                                   "{tool_name} not available, attempting to install...",
                                   tool_name, <<>>)]
             IN  IF inst.ok
                 THEN LET s3 == success(inst.s, "{tool_name} installed successfully",
                                        tool_name, <<>>)
                          g  == get_gopath(s3, rGopath)
                          bin_path == OsPathJoin(g.gopath, <<"b", "i", "n">>)
                      IN  IF g.s.exit # Running
                          THEN g.s
                          ELSE debug([g.s EXCEPT !.path = @ \o <<":">> \o bin_path],
                                     "Added {bin_path} to PATH", "", <<bin_path>>)
                 ELSE fail(inst.s, "Failed to install {tool_name}: {install_output}",
                           tool_name, <<inst.output>>)
        ELSE success(probe.s, "{tool_name} is already installed", tool_name, <<>>)

\* install_tool putting the bin directory in front of PATH
install_tool_prepends(s, tool_name, install_command, rProbe, rInstall, rGopath) ==
    LET s1    == debug(s, "Checking if {tool_name} is installed...", tool_name, <<>>)
        probe == run_command(s1, ProbeCommand(tool_name), rProbe)
    IN  IF ~probe.ok
        THEN LET s2   == warn(probe.s,
                              "{tool_name} not available, attempting to install...",
                              tool_name, <<>>)
                 inst == run_command(s2, install_command, rInstall)
             IN  IF inst.ok
                 THEN LET s3 == success(inst.s, "{tool_name} installed successfully",
                                        tool_name, <<>>)
                          g  == get_gopath(s3, rGopath)
                          bin_path == OsPathJoin(g.gopath, <<"b", "i", "n">>)
                      IN  IF g.s.exit # Running
                          THEN g.s
                          ELSE debug([g.s EXCEPT !.path = bin_path \o <<":">> \o @],
                                     "Added {bin_path} to PATH", "", <<bin_path>>)
                 ELSE fail(inst.s, "Failed to install {tool_name}: {install_output}",
                           tool_name, <<inst.output>>)
        ELSE success(probe.s, "{tool_name} is already installed", tool_name, <<>>)

install_tool(s, tool_name, install_command, rProbe, rInstall, rGopath) ==
    LET s1    == debug(s, "Checking if {tool_name} is installed...", tool_name, <<>>)
        probe == run_command(s1, ProbeCommand(tool_name), rProbe)
    IN  IF ~probe.ok
        THEN LET s2   == warn(probe.s,
                              "{tool_name} not available, attempting to install...",
                              tool_name, <<>>)
                 inst == run_command(s2, install_command, rInstall)
             IN  IF inst.ok
                 THEN LET s3 == success(inst.s, "{tool_name} installed successfully",
                                        tool_name, <<>>)
                          g  == get_gopath(s3, rGopath)
                          bin_path == OsPathJoin(g.gopath, <<"b", "i", "n">>)
                      IN  IF g.s.exit # Running
                          THEN g.s
                          ELSE debug([g.s EXCEPT !.path = @ \o <<":">> \o bin_path],
                                     "Added {bin_path} to PATH", "", <<bin_path>>)
                 ELSE fail(inst.s, "Failed to install {tool_name}: {install_output}",
                           tool_name, <<inst.output>>)
        ELSE success(probe.s, "{tool_name} is already installed", tool_name, <<>>)

\* returns the process, the value returned and (for the history) what
\* os.path.isfile("go.mod") answered, "unchecked" if it was not asked
validate_environment(s, rGo, rVersion, manifest) ==
    LET s1 == emit(debug(s, "Entering validate_environment", "", <<>>),
                   "Validating environment...", <<>>)
        go == run_command(s1, "command -v go", rGo)
    IN  IF ~go.ok
        THEN [s   |-> debug(fail(go.s, "Go not found in PATH", "", <<>>),
                            "Go not found, exiting validate_environment", "", <<>>),
              ret |-> FALSE, isfile |-> "unchecked"]
        ELSE
        LET s2  == debug(go.s, "Go command found", "", <<>>)
            ver == run_command(s2, "go version", rVersion)
        IN  IF ~ver.ok
            THEN [s   |-> debug(fail(ver.s, "Unable to determine Go version", "", <<>>),
                                "Failed to get Go version, exiting validate_environment",
                                "", <<>>),
                  ret |-> FALSE, isfile |-> "unchecked"]
            ELSE
            LET m == ReSearchGoVersion(ver.output)
                go_version == m.group1
            IN  IF ~m.matched
                THEN [s   |-> debug(fail(ver.s, "Unable to parse Go version", "", <<>>),
                                    "Go version parsing failed, exiting validate_environment",
                                    "", <<>>),
                      ret |-> FALSE, isfile |-> "unchecked"]
                ELSE
                LET s3 == debug(ver.s, "Go version extracted: {go_version}", "",
                                <<go_version>>)
                IN  IF StrLess(go_version, GO_VERSION_REQUIRED)
                    THEN [s   |-> debug(fail(s3,
                                    "Go version {go_version} below requirement (>= {GO_VERSION_REQUIRED})",
                                    "", <<go_version, GO_VERSION_REQUIRED>>),
                                    "Go version too low, exiting validate_environment",
                                    "", <<>>),
                          ret |-> FALSE, isfile |-> "unchecked"]
                    ELSE
                    LET s4 == debug(success(s3,
                                    "Go version {go_version} meets requirement (>= {GO_VERSION_REQUIRED})",
                                    "", <<go_version, GO_VERSION_REQUIRED>>),
                                    "Checking for go.mod", "", <<>>)
                        first_line  == Strip(manifest.first_line)
                        tokens      == Split(first_line, " ")
                        module_path == IF Len(tokens) > 1 THEN tokens[2] ELSE <<>>
                        segments    == Split(module_path, "/")
                        module_name == segments[Len(segments)]
                        s5 == IF manifest.isfile
                              THEN LET s6 == debug(success(s4, "go.mod exists", "", <<>>),
                                                   "Module path from go.mod: {module_path}",
                                                   "", <<module_path>>)
                                   IN  IF module_name = PROJECT_NAME
                                       THEN success(s6,
                                                "Module name matches project (got '{module_name}')",
                                                "", <<module_name>>)
                                       ELSE fail(s6,
                                                "Module name mismatch: expected '{PROJECT_NAME}', got '{module_name}' (from '{module_path}')",
                                                "", <<PROJECT_NAME, module_name, module_path>>)
                              ELSE debug(fail(s4, "go.mod not found", "", <<>>),
                                         "go.mod missing, continuing", "", <<>>)
                    IN  [s   |-> debug(s5, "Exiting validate_environment", "", <<>>),
                         ret |-> TRUE,
                         isfile |-> IF manifest.isfile THEN "present" ELSE "missing"]

check_tools(s, in) ==
    LET s1 == emit(debug(s, "Entering check_tools", "", <<>>),
                   "Checking available tools...", <<>>)
        s2 == install_tool(s1, "staticcheck", InstallCommand("staticcheck"),
                           in[1].probe, in[1].install, in[1].gopath)
    IN  IF s2.exit # Running
        THEN s2
        ELSE LET s3 == install_tool(s2, "govulncheck", InstallCommand("govulncheck"),
                                    in[2].probe, in[2].install, in[2].gopath)
             IN  IF s3.exit # Running
                 THEN s3
                 ELSE debug(s3, "Exiting check_tools", "", <<>>)

\* check_formatting classifying by the formatter's success flag
check_formatting_by_status(s, res) ==
    LET s1 == emit(debug(s, "Entering check_formatting", "", <<>>),
                   "Checking code formatting...", <<>>)
        r  == run_command(s1, "gofmt -l . | grep -v vendor/ || true", res)
        s2 == IF r.ok
              THEN success(r.s, "All Go files formatted correctly", "", <<>>)
              ELSE fail(r.s, "Unformatted files found: {output}", "", <<r.output>>)
    IN  debug(s2, "Exiting check_formatting", "", <<>>)

check_formatting(s, res) ==
    LET s1 == emit(debug(s, "Entering check_formatting", "", <<>>),
                   "Checking code formatting...", <<>>)
        r  == run_command(s1, "gofmt -l . | grep -v vendor/ || true", res)
        s2 == IF r.output = <<>>
              THEN success(r.s, "All Go files formatted correctly", "", <<>>)
              ELSE fail(r.s, "Unformatted files found: {output}", "", <<r.output>>)
    IN  debug(s2, "Exiting check_formatting", "", <<>>)

\* the loop giving up at the first command that fails
RECURSIVE core_checks_from_stops_on_failure(_, _, _)
core_checks_from_stops_on_failure(s, i, results) ==
    IF i > Len(CoreChecks)
    THEN s
    ELSE LET r == run_command(s, CoreChecks[i].cmd, results[i])
         IN  IF r.ok
             THEN core_checks_from_stops_on_failure(
                      success(r.s, CoreChecks[i].desc, "", <<>>), i + 1, results)
             ELSE fail(r.s, "{desc.split(' ')[0]} failed", CoreChecks[i].first, <<>>)

\* the loop of run_core_checks from its i-th pair on
RECURSIVE core_checks_from(_, _, _)
core_checks_from(s, i, results) ==
    IF i > Len(CoreChecks)
    THEN s
    ELSE LET r  == run_command(s, CoreChecks[i].cmd, results[i])
             s1 == IF r.ok
                   THEN success(r.s, CoreChecks[i].desc, "", <<>>)
                   ELSE fail(r.s, "{desc.split(' ')[0]} failed", CoreChecks[i].first,
                             <<>>)
         IN  core_checks_from(s1, i + 1, results)

run_core_checks(s, results) ==
    LET s1 == emit(debug(s, "Entering run_core_checks", "", <<>>),
                   "Running core quality checks...", <<>>)
    IN  debug(core_checks_from(s1, 1, results), "Exiting run_core_checks", "", <<>>)

\* one of the two probe-then-run blocks of run_external_tools
\* the block reporting an absent tool as a failure
external_tool_fails_absent(s, tool_name, rProbe, rTool, passText, failText) ==
    LET probe == run_command(s, ProbeCommand(tool_name), rProbe)
    IN  IF probe.ok
        THEN LET r == run_command(probe.s, ToolCommand(tool_name), rTool)
             IN  IF r.ok
                 THEN success(r.s, passText, "", <<>>)
                 ELSE fail(r.s, failText, "", <<>>)
        ELSE fail(probe.s, "{tool_name} not available", tool_name, <<>>)

external_tool(s, tool_name, rProbe, rTool, passText, failText) ==
    LET probe == run_command(s, ProbeCommand(tool_name), rProbe)
    IN  IF probe.ok
        THEN LET r == run_command(probe.s, ToolCommand(tool_name), rTool)
             IN  IF r.ok
                 THEN success(r.s, passText, "", <<>>)
                 ELSE fail(r.s, failText, "", <<>>)
        ELSE warn(probe.s, "{tool_name} not available", tool_name, <<>>)

run_external_tools(s, in) ==
    LET s1 == emit(debug(s, "Entering run_external_tools", "", <<>>),
                   "Running external tools (conditional)...", <<>>)
        s2 == external_tool(s1, "staticcheck", in[1].probe, in[1].tool,
                            "staticcheck passed", "staticcheck found issues")
        s3 == external_tool(s2, "govulncheck", in[2].probe, in[2].tool,
                            "No security vulnerabilities found",
                            "Security vulnerabilities detected")
    IN  debug(s3, "Exiting run_external_tools", "", <<>>)

\* check_build removing the artifact whether or not the build succeeded
check_build_cleans_on_failure(s, res, writes) ==
    LET s1 == emit(debug(s, "Entering check_build", "", <<>>),
                   "Verifying build...", <<>>)
        r  == run_command(s1, "go build -v .", res)
        s2 == [r.s EXCEPT !.artifact = @ \/ (r.ok /\ writes)]
        s3 == IF r.ok
              THEN success(s2, "Build successful", "", <<>>)
              ELSE fail(s2, "Build failed", "", <<>>)
    IN  debug([s3 EXCEPT !.artifact = FALSE], "Exiting check_build", "", <<>>)

\* writes: whether a successful `go build -v .` leaves a binary named after
\* the project in the working directory (it does for a main package)
check_build(s, res, writes) ==
    LET s1 == emit(debug(s, "Entering check_build", "", <<>>),
                   "Verifying build...", <<>>)
        r  == run_command(s1, "go build -v .", res)
        s2 == [r.s EXCEPT !.artifact = @ \/ (r.ok /\ writes)]
        s3 == IF r.ok
              THEN LET s4 == success(s2, "Build successful", "", <<>>)
                   IN  IF s4.artifact
                       THEN [s4 EXCEPT !.artifact = FALSE]
                       ELSE s4
              ELSE fail(s2, "Build failed", "", <<>>)
    IN  debug(s3, "Exiting check_build", "", <<>>)

generate_summary(s) ==
    LET s1 == emit(debug(s, "Entering generate_summary", "", <<>>),
                   "Quality Check Summary", <<>>)
        s2 == emit(emit(s1, "Passed: {CHECKS_PASSED}", <<Str(s1.passed)>>),
                   "Failed: {CHECKS_FAILED}", <<Str(s1.failed)>>)
        s3 == IF s2.failed = 0
              THEN emit(s2, "All quality checks passed", <<>>)
              ELSE emit(s2, "{CHECKS_FAILED} quality checks failed",
                        <<Str(s2.failed)>>)
    IN  debug(s3, "Exiting generate_summary", "", <<>>)

----------------------------------------------------------------------------
(* What the environment can hand the process *)

ArgVectors == {<<>>, <<"check">>, <<"">>, <<"fast">>, <<"format">>, <<"bogus">>}

InitialPath == <<"/", "u", "s", "r", "/", "b", "i", "n">>

LaunchError == <<"s", "h", ":", " ", "n", "o", "t", " ", "f", "o", "u", "n", "d">>

\* results of the commands of which only the success flag is read (for
\* these a command that does not start is a command that fails)
FlagResults == {Completed(0, <<>>, <<>>), Completed(1, <<>>, <<>>)}

Succeeded(res) == ~res.raised /\ res.returncode = 0

\* the versions `go version` is made to report: major.minor up to these
MaxMajor == 2

MaxMinor == 100

GoVersions ==
    {Str(major) \o <<".">> \o Str(minor) :
        major \in 1..MaxMajor, minor \in 0..MaxMinor}

GoVersionStdout(v) ==
    <<"g", "o", " ", "v", "e", "r", "s", "i", "o", "n", " ", "g", "o">> \o v
        \o <<".", "1", " ", "l", "i", "n", "u", "x", "\n">>

GoVersionResults ==
    {Completed(0, GoVersionStdout(v), <<>>) : v \in GoVersions}
    \cup {Completed(0, <<"g", "o", " ", "v", "e", "r", "s", "i", "o", "n", " ",
                         "d", "e", "v", "e", "l", "\n">>, <<>>),
          Completed(1, <<>>, <<>>)}

FirstLines ==
    { <<"m", "o", "d", "u", "l", "e", " ", "x", "/", "o", "t", "s", "u", "-",
        "o", "b", "l", "i", "t", "e", "r", "a", "t", "o", "r", "\n">>,
      <<"m", "o", "d", "u", "l", "e", " ", "x", "/", "o", "t", "h", "e", "r", "\n">>,
      <<"m", "o", "d", "u", "l", "e", "\n">>,
      <<>> }

\* What validate_environment finds on disk: whether go.mod is a file, and its
\* first line as readline() returns it
Manifests ==
    {[isfile |-> FALSE, first_line |-> <<>>]}
    \cup {[isfile |-> TRUE, first_line |-> l] : l \in FirstLines}

InstallResults ==
    {Completed(0, <<>>, <<>>),
     Completed(1, <<>>, <<"e", "x", "i", "t", " ", "s", "t", "a", "t", "u", "s",
                          " ", "1", "\n">>),
     Raised(LaunchError)}

GopathResults ==
    {Completed(0, <<"/", "g", "o", "\n">>, <<>>), Completed(1, <<>>, <<>>)}

FormatResults ==
    {Completed(0, <<>>, <<>>), Completed(0, <<"\n">>, <<>>),
     Completed(0, <<"m", "a", "i", "n", ".", "g", "o", "\n">>, <<>>),
     Completed(1, <<>>, <<>>), Raised(LaunchError)}

\* a placeholder for the result of a command the call does not reach
NotRun == Completed(0, <<>>, <<>>)

\* what one install_tool call can meet: the results of the commands it runs
ResolverInputs ==
    {[probe |-> p, install |-> NotRun, gopath |-> NotRun] :
        p \in {r \in FlagResults : Succeeded(r)}}
    \cup {[probe |-> p, install |-> i, gopath |-> NotRun] :
        p \in {r \in FlagResults : ~Succeeded(r)},
        i \in {r \in InstallResults : ~Succeeded(r)}}
    \cup {[probe |-> p, install |-> i, gopath |-> g] :
        p \in {r \in FlagResults : ~Succeeded(r)},
        i \in {r \in InstallResults : Succeeded(r)},
        g \in GopathResults}

\* what one probe-then-run block of run_external_tools can meet
RunnerInputs ==
    {[probe |-> p, tool |-> NotRun] : p \in {r \in FlagResults : ~Succeeded(r)}}
    \cup {[probe |-> p, tool |-> r] :
        p \in {r \in FlagResults : Succeeded(r)}, r \in FlagResults}

----------------------------------------------------------------------------
(* main *)

CommandLines ==
    {"command -v go", "go version", "go env GOPATH",
     "gofmt -l . | grep -v vendor/ || true", "go build -v ."}
    \cup {CoreChecks[i].cmd : i \in 1..Len(CoreChecks)}
    \cup {ProbeCommand(tl) : tl \in Tools}
    \cup {InstallCommand(tl) : tl \in Tools}
    \cup {ToolCommand(tl) : tl \in Tools}

Kinds == {"pass", "fail", "warn"}

\* number of lines of the given kind printed in trace tr
Count(tr, kind) == Cardinality({i \in 1..Len(tr) : tr[i].type = kind})

\* the fast branch calling check_tools as the check branch does
Pipeline_fast_bootstraps(cmd) ==
    IF cmd \in {"check", ""}
    THEN <<"validate_environment", "check_tools", "check_formatting",
           "run_core_checks", "run_external_tools", "check_build">>
    ELSE IF cmd = "fast"
    THEN <<"validate_environment", "check_tools", "check_formatting",
           "run_core_checks", "check_build">>
    ELSE IF cmd = "format"
    THEN <<"check_formatting">>
    ELSE <<>>

\* the format branch going on to the build
Pipeline_format_builds(cmd) ==
    IF cmd \in {"check", ""}
    THEN <<"validate_environment", "check_tools", "check_formatting",
           "run_core_checks", "run_external_tools", "check_build">>
    ELSE IF cmd = "fast"
    THEN <<"validate_environment", "check_formatting", "run_core_checks",
           "check_build">>
    ELSE IF cmd = "format"
    THEN <<"check_formatting", "check_build">>
    ELSE <<>>

\* the calls of the branch of main that `command` selects, in order
Pipeline(cmd) ==
    IF cmd \in {"check", ""}
    THEN <<"validate_environment", "check_tools", "check_formatting",
           "run_core_checks", "run_external_tools", "check_build">>
    ELSE IF cmd = "fast"
    THEN <<"validate_environment", "check_formatting", "run_core_checks",
           "check_build">>
    ELSE IF cmd = "format"
    THEN <<"check_formatting">>
    ELSE <<>>

\* where main goes when the call of `stage` returns
After(cmd, stage) ==
    LET P == Pipeline(cmd)
    IN  IF \E k \in 1..Len(P) : P[k] = stage
        THEN LET i == CHOOSE k \in 1..Len(P) : P[k] = stage
             IN  IF i < Len(P) THEN P[i + 1] ELSE "generate_summary"
        ELSE "exit"

Init ==
    /\ argv \in ArgVectors
    /\ command = "?"
    /\ pc = "main"
    /\ CHECKS_PASSED = 0
    /\ CHECKS_FAILED = 0
    /\ PATH = InitialPath
    /\ artifact \in BOOLEAN
    /\ exitCode = Running
    /\ validated = "unset"
    /\ go_mod = "unchecked"
    /\ stages = <<>>
    /\ trace = <<>>
    /\ bootstrap = <<>>
    /\ emitted = [k \in Kinds |-> 0]
    /\ ran = [c \in CommandLines |-> 0]

\* the run counts f with the runs of tr from its i-th event on added
RECURSIVE RunCounts(_, _, _)
RunCounts(f, tr, i) ==
    IF i > Len(tr) THEN f
    ELSE RunCounts(IF tr[i].type = "run" THEN [f EXCEPT ![tr[i].text] = @ + 1]
                   ELSE f,
                   tr, i + 1)

\* the history after a step that left the trace tr
Record(tr) ==
    /\ trace' = tr
    /\ emitted' = [k \in Kinds |->
                      emitted[k] + Count(tr, k)]
    /\ ran' = RunCounts(ran, tr, 1)

\* the process after main's call of `stage`: the stage's writes, and where
\* control is next
Commit(s, stage) ==
    /\ CHECKS_PASSED' = s.passed
    /\ CHECKS_FAILED' = s.failed
    /\ PATH' = s.path
    /\ artifact' = s.artifact
    /\ exitCode' = s.exit
    /\ pc' = IF s.exit # Running THEN "exited" ELSE After(command, stage)
    /\ stages' = Append(stages, stage)
    /\ bootstrap' = IF stage = "check_tools" THEN s.trace ELSE bootstrap
    /\ Record(s.trace)
    /\ UNCHANGED <<argv, command>>

\* main without the sys.exit(1) that follows the usage line
Main_usage_falls_through ==
    /\ pc = "main"
    /\ LET cmd == IF Len(argv) > 0 THEN argv[1] ELSE "check"
           s   == debug(Proc, "Entering main", "", <<>>)
       IN  /\ command' = cmd
           /\ IF Pipeline(cmd) # <<>>
              THEN /\ Record(s.trace)
                   /\ pc' = Pipeline(cmd)[1]
              ELSE /\ Record(emit(s, "Usage: quality_check.py [check|fast|format]",
                                  <<>>).trace)
                   /\ pc' = "generate_summary"
           /\ exitCode' = Running
    /\ UNCHANGED <<argv, CHECKS_PASSED, CHECKS_FAILED, PATH, artifact, validated,
                   go_mod, stages, bootstrap>>

\* main up to its first call: read the argument and pick the branch
Main ==
    /\ pc = "main"
    /\ LET cmd == IF Len(argv) > 0 THEN argv[1] ELSE "check"
           s   == debug(Proc, "Entering main", "", <<>>)
       IN  /\ command' = cmd
           /\ IF Pipeline(cmd) # <<>>
              THEN /\ Record(s.trace)
                   /\ pc' = Pipeline(cmd)[1]
                   /\ exitCode' = Running
              ELSE /\ Record(emit(s, "Usage: quality_check.py [check|fast|format]",
                                  <<>>).trace)
                   /\ pc' = "exited"
                   /\ exitCode' = 1
    /\ UNCHANGED <<argv, CHECKS_PASSED, CHECKS_FAILED, PATH, artifact, validated,
                   go_mod, stages, bootstrap>>

\* validate_environment returning True on every path
ValidateEnvironment_always_continues ==
    /\ pc = "validate_environment"
    /\ \E rGo \in FlagResults, rVersion \in GoVersionResults, manifest \in Manifests :
          LET r == validate_environment(Proc, rGo, rVersion, manifest)
          IN  /\ Commit(r.s, "validate_environment")
              /\ validated' = "True"
              /\ go_mod' = r.isfile

ValidateEnvironment ==
    /\ pc = "validate_environment"
    /\ \E rGo \in FlagResults, rVersion \in GoVersionResults, manifest \in Manifests :
          LET r == validate_environment(Proc, rGo, rVersion, manifest)
          IN  /\ Commit(r.s, "validate_environment")
              /\ validated' = IF r.ret THEN "True" ELSE "False"
              /\ go_mod' = r.isfile

CheckTools ==
    /\ pc = "check_tools"
    /\ \E in \in [1..2 -> ResolverInputs] : Commit(check_tools(Proc, in), "check_tools")
    /\ UNCHANGED <<validated, go_mod>>

CheckFormatting ==
    /\ pc = "check_formatting"
    /\ \E res \in FormatResults :
          Commit(check_formatting(Proc, res), "check_formatting")
    /\ UNCHANGED <<validated, go_mod>>

RunCoreChecks ==
    /\ pc = "run_core_checks"
    /\ \E results \in [1..Len(CoreChecks) -> FlagResults] :
          Commit(run_core_checks(Proc, results), "run_core_checks")
    /\ UNCHANGED <<validated, go_mod>>

RunExternalTools ==
    /\ pc = "run_external_tools"
    /\ \E in \in [1..2 -> RunnerInputs] :
          Commit(run_external_tools(Proc, in), "run_external_tools")
    /\ UNCHANGED <<validated, go_mod>>

CheckBuild ==
    /\ pc = "check_build"
    /\ \E res \in FlagResults, writes \in BOOLEAN :
          Commit(check_build(Proc, res, writes), "check_build")
    /\ UNCHANGED <<validated, go_mod>>

GenerateSummary ==
    /\ pc = "generate_summary"
    /\ Commit(generate_summary(Proc), "generate_summary")
    /\ UNCHANGED <<validated, go_mod>>

\* main's last statement: sys.exit(0) or sys.exit(1)
Exit ==
    /\ pc = "exit"
    /\ exitCode' = IF CHECKS_FAILED = 0 THEN 0 ELSE 1
    /\ pc' = "exited"
    /\ Record(<<>>)
    /\ UNCHANGED <<argv, command, CHECKS_PASSED, CHECKS_FAILED, PATH, artifact,
                   validated, go_mod, stages, bootstrap>>

Next ==
    \/ Main
    \/ ValidateEnvironment
    \/ CheckTools
    \/ CheckFormatting
    \/ RunCoreChecks
    \/ RunExternalTools
    \/ CheckBuild
    \/ GenerateSummary
    \/ Exit

Spec == Init /\ [][Next]_vars

----------------------------------------------------------------------------
(* Properties *)

Has(seq, x) == \E i \in 1..Len(seq) : seq[i] = x

IsPrefix(a, b) == Len(a) <= Len(b) /\ a = SubSeq(b, 1, Len(a))

\* the stage whose trace `trace` holds ("" while main has called none)
LastStage == IF stages = <<>> THEN "" ELSE stages[Len(stages)]

SummaryPrinted == Has(stages, "generate_summary")

UsagePrinted ==
    \E i \in 1..Len(trace) :
        /\ trace[i].type = "print"
        /\ trace[i].text = "Usage: quality_check.py [check|fast|format]"

\* the argument names a mode, or there is none
ValidInvocation == argv = <<>> \/ argv[1] \in {"check", "", "fast", "format"}

\* C1 (as stated): whatever the argument and the command outcomes, the
\* process exits with code 0 if and only if the failed counter is 0 at exit.
C1_ExitZeroIffNoFailure ==
    pc = "exited" => (exitCode = 0 <=> CHECKS_FAILED = 0)

\* C1 (amended): when the argument is check, fast, format, empty or absent,
\* the process exits with code 0 if and only if the failed counter is 0 at
\* exit; with any other argument it exits with code 1 and the failed counter
\* is 0.
C1_ExitCodeByInvocation ==
    pc = "exited" =>
        IF ValidInvocation
        THEN exitCode \in {0, 1} /\ (exitCode = 0 <=> CHECKS_FAILED = 0)
        ELSE exitCode = 1 /\ CHECKS_FAILED = 0

\* a run that get_gopath ended: exit code 1 with the failure recorded
C1_Witness ==
    /\ pc = "exited"
    /\ ~SummaryPrinted
    /\ argv = <<"check">>
    /\ exitCode = 1
    /\ CHECKS_FAILED = 1

\* C2: the passed counter is the number of Pass lines printed so far and the
\* failed counter the number of Fail lines printed so far; every step adds to
\* each counter exactly the number of Pass (Fail) lines it prints, so the
\* counters never decrease, are never reset, and Warn lines change neither.
C2_TallyCountsResults ==
    /\ [](/\ CHECKS_PASSED = emitted["pass"]
          /\ CHECKS_FAILED = emitted["fail"])
    /\ [][/\ CHECKS_PASSED' = CHECKS_PASSED + Count(trace', "pass")
          /\ CHECKS_FAILED' = CHECKS_FAILED + Count(trace', "fail")
          /\ CHECKS_PASSED' >= CHECKS_PASSED
          /\ CHECKS_FAILED' >= CHECKS_FAILED]_vars

\* Pass, Fail and Warn lines have all been printed
C2_Witness ==
    /\ emitted["warn"] = 2
    /\ CHECKS_PASSED >= 2
    /\ CHECKS_FAILED >= 2
    /\ pc = "exited"

\* C3 (as stated): in modes check, fast and format every stage of the
\* selected pipeline has run and the summary has been printed when the
\* process exits.
C3_PipelineRunsToSummary ==
    (pc = "exited" /\ command \in {"check", "fast", "format"}) =>
        /\ SummaryPrinted
        /\ \A i \in 1..Len(Pipeline(command)) : Has(stages, Pipeline(command)[i])

\* C4: with argument check or none, the stages started so far are always an
\* initial part of validate_environment, check_tools, check_formatting,
\* run_core_checks, run_external_tools, check_build (then the summary), and
\* check_tools handles staticcheck before govulncheck; with argument fast
\* they are an initial part of validate_environment, check_formatting,
\* run_core_checks, check_build (then the summary) and no probe, install or
\* tool command is ever run.
C4_StageOrder ==
    /\ (argv = <<>> \/ argv = <<"check">>) =>
          /\ IsPrefix(stages,
                      <<"validate_environment", "check_tools", "check_formatting",
                        "run_core_checks", "run_external_tools", "check_build",
                        "generate_summary">>)
          /\ (pc \notin {"main", "exit", "exited"} =>
                 IsPrefix(Append(stages, pc),
                          <<"validate_environment", "check_tools",
                            "check_formatting", "run_core_checks",
                            "run_external_tools", "check_build",
                            "generate_summary">>))
          /\ \A i, j \in 1..Len(bootstrap) :
                (/\ bootstrap[i].type = "run"
                 /\ bootstrap[i].text = "command -v govulncheck"
                 /\ bootstrap[j].type = "run"
                 /\ bootstrap[j].text = "command -v staticcheck") => j < i
          /\ (Has(stages, "check_tools") =>
                 /\ bootstrap # <<>>
                 /\ ran["command -v staticcheck"] >= 1)
    /\ argv = <<"fast">> =>
          /\ IsPrefix(stages,
                      <<"validate_environment", "check_formatting",
                        "run_core_checks", "check_build", "generate_summary">>)
          /\ (pc \notin {"main", "exit", "exited"} =>
                 IsPrefix(Append(stages, pc),
                          <<"validate_environment", "check_formatting",
                            "run_core_checks", "check_build",
                            "generate_summary">>))
          /\ \A tl \in Tools :
                /\ ran[ProbeCommand(tl)] = 0
                /\ ran[InstallCommand(tl)] = 0
                /\ ran[ToolCommand(tl)] = 0

\* a full check run with no argument, both tools probed in check_tools
C4_Witness ==
    /\ argv = <<>>
    /\ pc = "exited"
    /\ Len(stages) = 7
    /\ \E i \in 1..Len(bootstrap) :
          bootstrap[i].type = "run" /\ bootstrap[i].text = "command -v govulncheck"

\* C5: with argument format, whatever the formatter does, the build, test
\* and vet commands are never run, no Warn is printed, at most one Pass or
\* Fail is printed, and once the summary is printed exactly one has been
\* (passed + failed = 1).
C5_FormatEmitsOneResult ==
    argv = <<"format">> =>
        /\ ran["go build -v ."] = 0
        /\ ran["go test -race -short ./..."] = 0
        /\ ran["go vet ./..."] = 0
        /\ emitted["warn"] = 0
        /\ emitted["pass"] + emitted["fail"] <= 1
        /\ CHECKS_PASSED + CHECKS_FAILED <= 1
        /\ (SummaryPrinted =>
               /\ emitted["pass"] + emitted["fail"] = 1
               /\ CHECKS_PASSED + CHECKS_FAILED = 1)
        /\ (pc = "exited" => SummaryPrinted)

\* a format run that found unformatted files and printed the summary
C5_Witness ==
    /\ argv = <<"format">>
    /\ pc = "exited"
    /\ SummaryPrinted
    /\ CHECKS_FAILED = 1
    /\ ran["gofmt -l . | grep -v vendor/ || true"] = 1

\* C6 (as stated): with any argument other than check, fast and format, the
\* program prints the usage line, runs no stage, prints no summary and exits
\* with code 1.
C6_OtherArgumentUsage ==
    (pc # "main" /\ argv # <<>> /\ argv[1] \notin {"check", "fast", "format"}) =>
        /\ pc = "exited"
        /\ exitCode = 1
        /\ UsagePrinted
        /\ stages = <<>>

\* C6 (amended): with any argument other than check, fast, format and the
\* empty string, the program prints the usage line, runs no stage, prints no
\* summary, runs no command and exits with code 1; the empty string selects
\* the check pipeline.
C6_UnknownArgumentUsage ==
    /\ (pc # "main" /\ argv # <<>> /\ argv[1] \notin {"check", "fast", "format", ""}) =>
          /\ pc = "exited"
          /\ exitCode = 1
          /\ UsagePrinted
          /\ stages = <<>>
          /\ \A c \in CommandLines : ran[c] = 0
          /\ CHECKS_PASSED = 0
          /\ CHECKS_FAILED = 0
    /\ (pc # "main" /\ argv = <<"">>) =>
          /\ ~UsagePrinted
          /\ IsPrefix(stages,
                      <<"validate_environment", "check_tools", "check_formatting",
                        "run_core_checks", "run_external_tools", "check_build",
                        "generate_summary">>)
          /\ (pc \notin {"exit", "exited"} =>
                 IsPrefix(Append(stages, pc),
                          <<"validate_environment", "check_tools",
                            "check_formatting", "run_core_checks",
                            "run_external_tools", "check_build",
                            "generate_summary">>))

\* the run with argument bogus, after it has exited
C6_Witness ==
    /\ argv = <<"bogus">>
    /\ pc = "exited"
    /\ UsagePrinted
    /\ exitCode = 1

\* indices of the events of tr of the given type and text
Events(tr, type, text) ==
    {i \in 1..Len(tr) : tr[i].type = type /\ tr[i].text = text}

\* indices of the runs of command line c in tr that returned failure
FailedRuns(tr, c) == {i \in Events(tr, "run", c) : ~tr[i].ok}

\* validate_environment returned False, or printed the Fail for a missing
\* go.mod, in mode check or fast
ValidatorStoppedOrManifestMissing ==
    /\ command \in {"check", "fast"}
    /\ validated = "False" \/ go_mod = "missing"

\* C7 (as stated): when validate_environment has returned False in mode
\* check or fast, or has printed the Fail for a missing go.mod, main calls
\* the next stage of the pipeline (check_tools in check, check_formatting in
\* fast), and check_formatting and check_build have been run when the
\* process exits.
C7_ValidatorNeverGates ==
    /\ (ValidatorStoppedOrManifestMissing /\ LastStage = "validate_environment") =>
          pc = (IF command = "check" THEN "check_tools" ELSE "check_formatting")
    /\ (ValidatorStoppedOrManifestMissing /\ pc = "exited") =>
          /\ Has(stages, "check_formatting")
          /\ Has(stages, "check_build")

RunnerFailText(tl) ==
    IF tl = "staticcheck" THEN "staticcheck found issues"
    ELSE "Security vulnerabilities detected"

\* check_tools found the tool absent and its install command failed
InstallFailed(tl) ==
    /\ FailedRuns(bootstrap, ProbeCommand(tl)) # {}
    /\ FailedRuns(bootstrap, InstallCommand(tl)) # {}

\* C8: in mode check, if check_tools finds a tool absent and its install
\* command fails, check_tools prints exactly one Fail for that tool, after
\* the install, carrying the output the install returned, and no Pass for
\* it; and when run_external_tools then finds the tool still absent, it
\* prints exactly one Warn for that tool, does not run the tool and prints no
\* Fail for it (the tool's command is never run in that run).
C8_FailedInstallDegradesToWarn ==
    \A tl \in Tools :
        InstallFailed(tl) =>
            /\ command \in {"check", ""}
            /\ Cardinality({i \in 1..Len(bootstrap) :
                   bootstrap[i].type = "fail" /\ bootstrap[i].subject = tl}) = 1
            /\ \A i \in 1..Len(bootstrap) :
                   (bootstrap[i].type = "fail" /\ bootstrap[i].subject = tl) =>
                       /\ bootstrap[i].text
                              = "Failed to install {tool_name}: {install_output}"
                       /\ \A j \in Events(bootstrap, "run", InstallCommand(tl)) :
                              j < i /\ bootstrap[i].args = bootstrap[j].args
            /\ \A i \in 1..Len(bootstrap) :
                   bootstrap[i].subject = tl => bootstrap[i].type # "pass"
            /\ Cardinality(Events(bootstrap, "run", InstallCommand(tl))) = 1
            /\ ((/\ LastStage = "run_external_tools"
                 /\ FailedRuns(trace, ProbeCommand(tl)) # {}) =>
                   /\ Cardinality({i \in 1..Len(trace) :
                          trace[i].type = "warn" /\ trace[i].subject = tl}) = 1
                   /\ Events(trace, "run", ToolCommand(tl)) = {}
                   /\ Events(trace, "fail", RunnerFailText(tl)) = {}
                   /\ \A i \in 1..Len(trace) :
                          trace[i].type = "fail" =>
                              \E other \in Tools \ {tl} :
                                  trace[i].text = RunnerFailText(other)
                   /\ ran[ToolCommand(tl)] = 0)

\* staticcheck's install failed with the installer's output reported, and
\* run_external_tools has warned about staticcheck
C8_Witness ==
    /\ InstallFailed("staticcheck")
    /\ \E i \in 1..Len(bootstrap) :
          /\ bootstrap[i].type = "fail"
          /\ bootstrap[i].subject = "staticcheck"
          /\ bootstrap[i].args = <<<<"e", "x", "i", "t", " ", "s", "t", "a", "t",
                                     "u", "s", " ", "1">>>>
    /\ LastStage = "run_external_tools"
    /\ \E i \in 1..Len(trace) :
          trace[i].type = "warn" /\ trace[i].subject = "staticcheck"

\* C9 (as stated): no command line is run more than once in a run.
C9_EveryCommandAtMostOnce == \A c \in CommandLines : ran[c] <= 1

Rerun == {ProbeCommand(tl) : tl \in Tools} \cup {"go env GOPATH"}

\* C9 (amended): nothing is retried: a stage runs each command line at most
\* once, except `go env GOPATH`, which check_tools runs once after each
\* successful install; over a whole run every command line is run at most
\* once, except the presence probes `command -v staticcheck` and
\* `command -v govulncheck` (in mode check once in check_tools and once more
\* in run_external_tools) and `go env GOPATH` (at most twice); in modes fast
\* and format every command line is run at most once.
C9_NoRetries ==
    /\ \A c \in CommandLines \ Rerun : ran[c] <= 1
    /\ \A c \in Rerun : ran[c] <= 2
    /\ \A c \in CommandLines \ {"go env GOPATH"} :
          Cardinality(Events(trace, "run", c)) <= 1
    /\ \A tl \in Tools :
          /\ Cardinality(Events(bootstrap, "run", ProbeCommand(tl))) <= 1
          /\ ran["go env GOPATH"]
                 <= Cardinality({x \in Tools : ran[InstallCommand(x)] = 1})
          /\ (ran[ProbeCommand(tl)] = 2 => Has(stages, "run_external_tools"))
    /\ command \in {"fast", "format"} => \A c \in CommandLines : ran[c] <= 1

\* a check run in which both probes and `go env GOPATH` were run twice
C9_Witness ==
    /\ pc = "exited"
    /\ \A c \in Rerun : ran[c] = 2

\* C10 (as stated): validate_environment returns False only when go is
\* absent or its version cannot be retrieved or parsed; when the parsed
\* version is below the requirement it prints the Fail, goes on to the
\* go.mod checks and returns True.
C10_OnlyTwoHardStops ==
    LastStage = "validate_environment" =>
        /\ validated = "False" =>
              \/ Events(trace, "fail", "Go not found in PATH") # {}
              \/ Events(trace, "fail", "Unable to determine Go version") # {}
              \/ Events(trace, "fail", "Unable to parse Go version") # {}
        /\ Events(trace, "fail",
                  "Go version {go_version} below requirement (>= {GO_VERSION_REQUIRED})")
               # {} =>
              /\ validated = "True"
              /\ \/ Events(trace, "pass", "go.mod exists") # {}
                 \/ Events(trace, "fail", "go.mod not found") # {}


\* indices of the lines of the given type that tr holds about tool tl
ToolLines(tr, type, tl) ==
    {i \in 1..Len(tr) : tr[i].type = type /\ tr[i].subject = tl}

\* indices of the runs of command line c in tr that returned success
OkRuns(tr, c) == Events(tr, "run", c) \ FailedRuns(tr, c)

\* C11: for each tool that check_tools has handled, install_tool probed it
\* exactly once; if the probe succeeded it printed exactly one Pass about the
\* tool (after the probe), no Warn and no Fail, and the install command is
\* never run; if the probe failed it printed exactly one Warn after the probe
\* and before the install command, ran the install command exactly once, and
\* after it printed exactly one result about the tool: the "installed
\* successfully" Pass if the install succeeded, the "Failed to install" Fail
\* if it failed.  The only other result check_tools can print is get_gopath's
\* Fail, which is about the GOPATH query.
C11_ResolverProbeThenInstall ==
    /\ \A i \in 1..Len(bootstrap) :
          bootstrap[i].type \in {"pass", "fail", "warn"} =>
              \/ bootstrap[i].subject \in Tools
              \/ bootstrap[i].type = "fail" /\ bootstrap[i].text = "Failed to get GOPATH"
    /\ \A tl \in Tools :
          Events(bootstrap, "run", ProbeCommand(tl)) # {} =>
              /\ Cardinality(Events(bootstrap, "run", ProbeCommand(tl))) = 1
              /\ IF FailedRuns(bootstrap, ProbeCommand(tl)) = {}
                 THEN /\ Cardinality(ToolLines(bootstrap, "pass", tl)) = 1
                      /\ \A i \in ToolLines(bootstrap, "pass", tl) :
                            /\ bootstrap[i].text = "{tool_name} is already installed"
                            /\ \A p \in Events(bootstrap, "run", ProbeCommand(tl)) : p < i
                      /\ ToolLines(bootstrap, "warn", tl) = {}
                      /\ ToolLines(bootstrap, "fail", tl) = {}
                      /\ Events(bootstrap, "run", InstallCommand(tl)) = {}
                      /\ ran[InstallCommand(tl)] = 0
                 ELSE /\ Cardinality(ToolLines(bootstrap, "warn", tl)) = 1
                      /\ Cardinality(Events(bootstrap, "run", InstallCommand(tl))) = 1
                      /\ ran[InstallCommand(tl)] = 1
                      /\ \A p \in Events(bootstrap, "run", ProbeCommand(tl)),
                            w \in ToolLines(bootstrap, "warn", tl),
                            r \in Events(bootstrap, "run", InstallCommand(tl)) :
                            p < w /\ w < r
                      /\ Cardinality(ToolLines(bootstrap, "pass", tl)
                                     \cup ToolLines(bootstrap, "fail", tl)) = 1
                      /\ \A r \in Events(bootstrap, "run", InstallCommand(tl)),
                            i \in ToolLines(bootstrap, "pass", tl)
                                  \cup ToolLines(bootstrap, "fail", tl) :
                            /\ r < i
                            /\ bootstrap[i].text
                                   = (IF bootstrap[r].ok
                                      THEN "{tool_name} installed successfully"
                                      ELSE "Failed to install {tool_name}: {install_output}")
                            /\ bootstrap[i].type
                                   = (IF bootstrap[r].ok THEN "pass" ELSE "fail")

\* check_tools found staticcheck present, and govulncheck absent with its
\* install succeeding
C11_Witness ==
    /\ LastStage = "check_tools"
    /\ OkRuns(bootstrap, ProbeCommand("staticcheck")) # {}
    /\ ToolLines(bootstrap, "pass", "staticcheck") # {}
    /\ FailedRuns(bootstrap, ProbeCommand("govulncheck")) # {}
    /\ OkRuns(bootstrap, InstallCommand("govulncheck")) # {}
    /\ ToolLines(bootstrap, "warn", "govulncheck") # {}
    /\ ToolLines(bootstrap, "pass", "govulncheck") # {}

\* C12 (as stated): whenever check_tools has run a tool's install command
\* with success, it has printed a Pass and no Fail about that tool, PATH is
\* the initial PATH with something appended, and check_tools has returned to
\* main, which goes on to check_formatting with that PATH.
C12_InstallExtendsSearchPath ==
    \A tl \in Tools :
        OkRuns(bootstrap, InstallCommand(tl)) # {} =>
            /\ ToolLines(bootstrap, "pass", tl) # {}
            /\ ToolLines(bootstrap, "fail", tl) = {}
            /\ IsPrefix(InitialPath, PATH)
            /\ Len(PATH) > Len(InitialPath)
            /\ (LastStage = "check_tools" => pc = "check_formatting")
            /\ exitCode = Running \/ SummaryPrinted

\* indices of the commands run in tr
Runs(tr) == {i \in 1..Len(tr) : tr[i].type = "run"}

\* path with, for every successful `go env GOPATH` of tr from its i-th event
\* on, ":" and the bin directory of the workspace it printed appended
RECURSIVE PathAfter(_, _, _)
PathAfter(path, tr, i) ==
    IF i > Len(tr) THEN path
    ELSE PathAfter(IF tr[i].type = "run" /\ tr[i].text = "go env GOPATH" /\ tr[i].ok
                   THEN path \o <<":">> \o OsPathJoin(tr[i].args[1], <<"b", "i", "n">>)
                   ELSE path,
                   tr, i + 1)

\* C13: every step other than check_tools leaves PATH unchanged; check_tools
\* leaves it unchanged unless one of its installs succeeded, and changes it
\* only by appending, once per successful install whose GOPATH query (the
\* command it runs right after that install) succeeded, ":" and that
\* workspace's bin directory; so PATH always starts with the initial PATH,
\* and in modes fast and format it is the initial PATH throughout.
C13_SearchPathFrame ==
    /\ [][/\ pc # "check_tools" => PATH' = PATH
          /\ pc = "check_tools" =>
                /\ PATH' = PathAfter(PATH, trace', 1)
                /\ IsPrefix(PATH, PATH')
                /\ ((\A tl \in Tools : OkRuns(trace', InstallCommand(tl)) = {})
                       => PATH' = PATH)
                /\ \A g \in Events(trace', "run", "go env GOPATH") :
                      \E tl \in Tools :
                          \E r \in OkRuns(trace', InstallCommand(tl)) :
                              r < g /\ \A k \in Runs(trace') : ~(r < k /\ k < g)]_vars
    /\ [](/\ IsPrefix(InitialPath, PATH)
          /\ command \in {"fast", "format"} => PATH = InitialPath
          /\ ~Has(stages, "check_tools") => PATH = InitialPath)

\* a check run in which one install failed and the other succeeded, at exit:
\* PATH was extended once
C13_Witness ==
    /\ pc = "exited"
    /\ SummaryPrinted
    /\ \E tl \in Tools : FailedRuns(bootstrap, InstallCommand(tl)) # {}
    /\ \E tl \in Tools : OkRuns(bootstrap, InstallCommand(tl)) # {}
    /\ PATH = InitialPath \o <<":", "/", "g", "o", "/", "b", "i", "n">>

RunnerPassText(tl) ==
    IF tl = "staticcheck" THEN "staticcheck passed"
    ELSE "No security vulnerabilities found"

\* indices of the results run_external_tools printed in tr for tool tl
RunnerResults(tr, tl) ==
    Events(tr, "pass", RunnerPassText(tl)) \cup Events(tr, "fail", RunnerFailText(tl))

\* C14: run_external_tools probes each of the two tools exactly once; if the
\* probe succeeds it then runs the tool exactly once and after it prints
\* exactly one result for it, Pass if the tool succeeded and Fail if not, and
\* no Warn; if the probe fails it prints exactly one Warn for the tool, does
\* not run the tool and prints no result for it, so the counters grow by the
\* number of tools present (not at all when both are absent).  It runs no
\* install command: the install commands are run only by check_tools, which
\* only the check pipeline calls.
C14_RunnerProbesNeverInstalls ==
    /\ [][pc = "run_external_tools" =>
            /\ \A tl \in Tools :
                  /\ Cardinality(Events(trace', "run", ProbeCommand(tl))) = 1
                  /\ Events(trace', "run", InstallCommand(tl)) = {}
                  /\ ran'[InstallCommand(tl)] = ran[InstallCommand(tl)]
                  /\ IF OkRuns(trace', ProbeCommand(tl)) # {}
                     THEN /\ Cardinality(Events(trace', "run", ToolCommand(tl))) = 1
                          /\ Cardinality(RunnerResults(trace', tl)) = 1
                          /\ ToolLines(trace', "warn", tl) = {}
                          /\ \A p \in Events(trace', "run", ProbeCommand(tl)),
                                r \in Events(trace', "run", ToolCommand(tl)),
                                i \in RunnerResults(trace', tl) :
                                /\ p < r
                                /\ r < i
                                /\ trace'[i].type
                                       = (IF trace'[r].ok THEN "pass" ELSE "fail")
                     ELSE /\ Cardinality(ToolLines(trace', "warn", tl)) = 1
                          /\ Events(trace', "run", ToolCommand(tl)) = {}
                          /\ RunnerResults(trace', tl) = {}
            /\ Count(trace', "pass") + Count(trace', "fail")
                   = Cardinality({tl \in Tools : OkRuns(trace', ProbeCommand(tl)) # {}})
            /\ CHECKS_PASSED' + CHECKS_FAILED'
                   = CHECKS_PASSED + CHECKS_FAILED
                     + Cardinality({tl \in Tools : OkRuns(trace', ProbeCommand(tl)) # {}})
            /\ Count(trace', "warn")
                   = Cardinality({tl \in Tools : FailedRuns(trace', ProbeCommand(tl)) # {}})]_vars
    /\ [](\A tl \in Tools :
             /\ ran[InstallCommand(tl)]
                    = Cardinality(Events(bootstrap, "run", InstallCommand(tl)))
             /\ (ran[InstallCommand(tl)] > 0 =>
                    /\ Has(stages, "check_tools")
                    /\ command \in {"check", ""}))

\* run_external_tools found staticcheck present and failing, and govulncheck
\* absent, in a run whose check_tools had tried to install govulncheck
C14_Witness ==
    /\ LastStage = "run_external_tools"
    /\ Events(trace, "fail", "staticcheck found issues") # {}
    /\ ToolLines(trace, "warn", "govulncheck") # {}
    /\ Events(trace, "run", ToolCommand("govulncheck")) = {}
    /\ ran[InstallCommand("govulncheck")] = 1

\* the commands run and the Pass, Fail and Warn lines printed in tr, in order
Outcomes(tr) ==
    SelectSeq(tr, LAMBDA e : e.type \in {"run", "pass", "fail", "warn"})

\* C15: whatever its four commands return, run_core_checks runs `go vet`,
\* the race-enabled tests, `go mod tidy -diff` and `go mod verify`, each
\* exactly once and in this order, runs nothing else, and prints right after
\* each command exactly one result, Pass if that command succeeded and Fail
\* if it failed, whatever the other three did; it prints no Warn, and
\* passed + failed grows by exactly 4 across the stage.
C15_CoreChecksAllRun ==
    [][pc = "run_core_checks" =>
          LET o     == Outcomes(trace')
              order == <<"go vet ./...", "go test -race -short ./...",
                         "go mod tidy -diff", "go mod verify">>
          IN  /\ Len(o) = 8
              /\ \A i \in 1..4 :
                    /\ o[2 * i - 1].type = "run"
                    /\ o[2 * i - 1].text = order[i]
                    /\ o[2 * i].type = (IF o[2 * i - 1].ok THEN "pass" ELSE "fail")
                    /\ ran'[order[i]] = ran[order[i]] + 1
                    /\ ran'[order[i]] = 1
              /\ CHECKS_PASSED' + CHECKS_FAILED' = CHECKS_PASSED + CHECKS_FAILED + 4
              /\ CHECKS_PASSED' - CHECKS_PASSED
                     = Cardinality({i \in 1..4 : o[2 * i - 1].ok})
              /\ CHECKS_FAILED' - CHECKS_FAILED
                     = Cardinality({i \in 1..4 : ~o[2 * i - 1].ok})]_vars

\* run_core_checks has run with vet and the checksum verification failing and
\* the two commands between them succeeding
C15_Witness ==
    /\ LastStage = "run_core_checks"
    /\ FailedRuns(trace, "go vet ./...") # {}
    /\ OkRuns(trace, "go test -race -short ./...") # {}
    /\ OkRuns(trace, "go mod tidy -diff") # {}
    /\ FailedRuns(trace, "go mod verify") # {}
    /\ Count(trace, "pass") = 2
    /\ Count(trace, "fail") = 2

\* C16: check_build runs the build command exactly once; if it succeeds,
\* check_build prints exactly one Pass and no Fail and no file named after
\* the project is left in the working directory, whether one was there before
\* or the build wrote one; if it fails, check_build prints exactly one Fail
\* and no Pass and the file exists afterwards exactly if it existed before.
C16_BuildCleansUpOnSuccessOnly ==
    [][pc = "check_build" =>
          /\ Cardinality(Events(trace', "run", "go build -v .")) = 1
          /\ Cardinality(Runs(trace')) = 1
          /\ Count(trace', "warn") = 0
          /\ IF OkRuns(trace', "go build -v .") # {}
             THEN /\ Cardinality(Events(trace', "pass", "Build successful")) = 1
                  /\ Count(trace', "pass") = 1
                  /\ Count(trace', "fail") = 0
                  /\ artifact' = FALSE
             ELSE /\ Cardinality(Events(trace', "fail", "Build failed")) = 1
                  /\ Count(trace', "fail") = 1
                  /\ Count(trace', "pass") = 0
                  /\ artifact' = artifact]_vars

\* the build has failed in a directory that held the file: it is still there
C16_Witness ==
    /\ LastStage = "check_build"
    /\ FailedRuns(trace, "go build -v .") # {}
    /\ Events(trace, "fail", "Build failed") # {}
    /\ artifact

\* the text a command outcome carries: stdout trimmed if the command
\* succeeded, stderr trimmed if it failed, the error text if it did not start
Captured(res) ==
    IF res.raised THEN res.exc
    ELSE IF res.returncode = 0 THEN Strip(res.stdout)
    ELSE Strip(res.stderr)

\* C17: check_formatting runs the formatter command exactly once and prints
\* exactly one result and no Warn; the result is the Pass if and only if the
\* output text the run returned is empty, and the "Unformatted files found"
\* Fail carrying that text otherwise; and a second run of check_formatting
\* right after it, whatever the formatter then does, prints exactly one
\* result, Pass if and only if the trimmed text it captured is empty, which
\* is the same classification as the first whenever the two output texts are
\* equal.
C17_FormatClassifiedByOutput ==
    LastStage = "check_formatting" =>
        /\ Cardinality(Runs(trace)) = 1
        /\ Count(trace, "pass") + Count(trace, "fail") = 1
        /\ Count(trace, "warn") = 0
        /\ \A r \in Runs(trace) :
              /\ trace[r].text = "gofmt -l . | grep -v vendor/ || true"
              /\ IF trace[r].args[1] = <<>>
                 THEN Events(trace, "pass", "All Go files formatted correctly") # {}
                 ELSE \E i \in Events(trace, "fail", "Unformatted files found: {output}") :
                          trace[i].args = trace[r].args
              /\ \A res \in FormatResults :
                    LET again == check_formatting(Proc, res).trace
                    IN  /\ Count(again, "pass") + Count(again, "fail") = 1
                        /\ Count(again, "pass") = 1 <=> Captured(res) = <<>>
                        /\ Captured(res) = trace[r].args[1] =>
                              /\ Count(again, "pass") = Count(trace, "pass")
                              /\ Count(again, "fail") = Count(trace, "fail")

\* the formatter command failed with nothing on stderr: the result is Pass
C17_Witness ==
    /\ LastStage = "check_formatting"
    /\ FailedRuns(trace, "gofmt -l . | grep -v vendor/ || true") # {}
    /\ Events(trace, "pass", "All Go files formatted correctly") # {}

\* a is lexicographically smaller than b: at the first position where they
\* differ a has the smaller character, or a ends there and b does not
\* ("." sorts before the digits, the digits in numeric order)
LexSmaller(a, b) ==
    \E k \in 1..Len(b) :
        /\ \A j \in 1..(k - 1) : j <= Len(a) /\ a[j] = b[j]
        /\ k > Len(a) \/ Ord(a[k]) < Ord(b[k])

BelowText == "Go version {go_version} below requirement (>= {GO_VERSION_REQUIRED})"

MeetsText == "Go version {go_version} meets requirement (>= {GO_VERSION_REQUIRED})"

\* C18: whenever validate_environment has parsed a version out of the
\* `go version` output, it prints exactly one of the below-requirement Fail
\* and the meets-requirement Pass about that version: the Fail if and only if
\* the version is lexicographically smaller than "1.24".  So "1.9" gets the
\* Pass and "1.100" the Fail.
C18_VersionComparedAsText ==
    LastStage = "validate_environment" =>
        \A d \in Events(trace, "debug", "Go version extracted: {go_version}") :
            LET go_version == trace[d].args[1]
                below == {i \in Events(trace, "fail", BelowText) :
                             trace[i].args[1] = go_version}
                meets == {i \in Events(trace, "pass", MeetsText) :
                             trace[i].args[1] = go_version}
            IN  /\ Cardinality(Events(trace, "fail", BelowText)
                               \cup Events(trace, "pass", MeetsText)) = 1
                /\ Cardinality(below \cup meets) = 1
                /\ below # {} <=> LexSmaller(go_version, <<"1", ".", "2", "4">>)
                /\ go_version = <<"1", ".", "9">> => meets # {}
                /\ go_version = <<"1", ".", "1", "0", "0">> => below # {}

\* go reported version 1.100 and validate_environment rejected it
C18_Witness ==
    /\ LastStage = "validate_environment"
    /\ \E i \in Events(trace, "fail", BelowText) :
          trace[i].args[1] = <<"1", ".", "1", "0", "0">>
    /\ validated = "False"

\* the Pass and Fail lines printed in tr, in order
Results(tr) == SelectSeq(tr, LAMBDA e : e.type \in {"pass", "fail"})

\* C19: when validate_environment has returned, it returned False if and
\* only if it printed exactly one result and that result is a Fail; when it
\* returned True its first result is the version Pass and it printed either
\* two results, the second being the "go.mod not found" Fail (go.mod
\* missing), or three, the second being the "go.mod exists" Pass and the
\* third the module-name Pass or the module-name Fail (go.mod present).  It
\* prints no Warn.
C19_ReturnValueMatchesResults ==
    LastStage = "validate_environment" =>
        LET r == Results(trace)
        IN  /\ validated \in {"True", "False"}
            /\ Count(trace, "warn") = 0
            /\ validated = "False" <=> (Len(r) = 1 /\ r[1].type = "fail")
            /\ validated = "False" => Count(trace, "pass") = 0
            /\ validated = "True" =>
                  /\ Len(r) \in {2, 3}
                  /\ r[1].type = "pass"
                  /\ r[1].text = MeetsText
                  /\ Len(r) = 2 <=> go_mod = "missing"
                  /\ Len(r) = 3 <=> go_mod = "present"
                  /\ Len(r) = 2 =>
                        r[2].type = "fail" /\ r[2].text = "go.mod not found"
                  /\ Len(r) = 3 =>
                        /\ r[2].type = "pass"
                        /\ r[2].text = "go.mod exists"
                        /\ \/ /\ r[3].type = "pass"
                              /\ r[3].text
                                     = "Module name matches project (got '{module_name}')"
                           \/ /\ r[3].type = "fail"
                              /\ r[3].text
                                     = "Module name mismatch: expected '{PROJECT_NAME}', got '{module_name}' (from '{module_path}')"

\* validate_environment returned True after three results, the last one the
\* module-name Fail
C19_Witness ==
    /\ LastStage = "validate_environment"
    /\ validated = "True"
    /\ Len(Results(trace)) = 3
    /\ Results(trace)[3].type = "fail"

\* the number of Pass and Fail lines of tr
Tallied(tr) == Count(tr, "pass") + Count(tr, "fail")

\* C20: once the summary is printed, passed + failed is exactly 1 in mode
\* format, between 7 and 9 in mode fast and between 9 and 13 in the check
\* pipeline, whatever the commands returned; stage by stage,
\* validate_environment adds 1 to 3, a check_tools that returns adds exactly
\* 2, check_formatting 1, run_core_checks 4, run_external_tools 0 to 2,
\* check_build 1 and generate_summary nothing.
C20_TotalsByMode ==
    /\ [](SummaryPrinted =>
             LET total == CHECKS_PASSED + CHECKS_FAILED
             IN  /\ command \in {"check", "", "fast", "format"}
                 /\ command = "format" => total = 1
                 /\ command = "fast" => 7 <= total /\ total <= 9
                 /\ command \in {"check", ""} =>
                       /\ 9 <= total /\ total <= 13
                       /\ Tallied(bootstrap) = 2)
    /\ [][/\ CHECKS_PASSED' + CHECKS_FAILED'
                 = CHECKS_PASSED + CHECKS_FAILED + Tallied(trace')
          /\ pc = "validate_environment" => Tallied(trace') \in 1..3
          /\ (pc = "check_tools" /\ exitCode' = Running) => Tallied(trace') = 2
          /\ pc = "check_formatting" => Tallied(trace') = 1
          /\ pc = "run_core_checks" => Tallied(trace') = 4
          /\ pc = "run_external_tools" => Tallied(trace') \in 0..2
          /\ pc = "check_build" => Tallied(trace') = 1
          /\ pc \in {"main", "generate_summary", "exit"} => Tallied(trace') = 0]_vars

\* a check run that printed its summary with 13 results tallied
C20_Witness ==
    /\ SummaryPrinted
    /\ pc = "exited"
    /\ command = "check"
    /\ CHECKS_PASSED + CHECKS_FAILED = 13
====
